---- MODULE Spec2Model ----
(***************************************************************************)
(* routing-controllers-openapi-extra: the file-upload decorators of        *)
(* src/src/files.ts (IsFile, IsFiles, UseMulter) as a state machine.       *)
(*                                                                         *)
(* The decorators of a DTO class run in program order and fill the         *)
(* metadata table; UseMulter(dtoClass) registers one middleware; every     *)
(* request then goes through multer (uploadEngine.fields(multerFields))    *)
(* and the validation callback of files.ts:162-242.                        *)
(*                                                                         *)
(* Further parts, each with its own specification over the same state:     *)
(* the OpenAPI step of UseMulter (SpecOpenAPI), AsyncResolver and IsEntity *)
(* of src/src/decorators.ts (SpecResolver), RequestGuard (SpecGuard) and   *)
(* BodyMultipart (SpecBody).                                               *)
(***************************************************************************)
EXTENDS Integers, Sequences, FiniteSets, TLC

(***************************************************************************)
(* JavaScript values.  An optional value is <<>> (undefined) or <<v>>.     *)
(***************************************************************************)
Undef == <<>>

Some(v) == <<v>>

IsDef(x) == x # <<>>

Val(x) == x[1]

(***************************************************************************)
(* Bounds of the model.                                                    *)
(***************************************************************************)
\* longest file list per field that is enumerated file by file
MaxLen == 2

\* the minFiles / maxFiles values an array field declares in the model
MinFilesDeclared == 2

MaxFilesDeclared == 5

(***************************************************************************)
(* Program constants.                                                      *)
(***************************************************************************)
\* files.ts:157  meta.options.maxFiles ?? 99
DefaultMaxCount == 99

\* the 'kb' multiplier of the bytes package that parseFileSize calls
KB == 1024

(***************************************************************************)
(* MIME types, as character sequences (regular expressions look inside).   *)
(***************************************************************************)
PNG == <<"i", "m", "a", "g", "e", "/", "p", "n", "g">>

JPEG == <<"i", "m", "a", "g", "e", "/", "j", "p", "e", "g">>

GIF == <<"i", "m", "a", "g", "e", "/", "g", "i", "f">>

IMAGE_SLASH == <<"i", "m", "a", "g", "e", "/">>

\* a client-chosen type that contains "image/png" and is not it
PNG2 == PNG \o <<"2">>

MimeTypes == {PNG, JPEG, GIF, PNG2}

(***************************************************************************)
(* Express.Multer.File: the two properties the validator reads.            *)
(***************************************************************************)
MkFile(size, mimetype) == [size |-> size, mimetype |-> mimetype]

Files ==
    {MkFile(KB, PNG), MkFile(KB - 1, PNG), MkFile(KB + 1, PNG),
     MkFile(KB, JPEG), MkFile(KB, GIF), MkFile(KB, PNG2)}

(***************************************************************************)
(* Regular expressions.  A member of options.mimeTypes is a RegExp object  *)
(* or a string (utils.d.ts:16).  A RegExp is: ^ present (start), the atoms *)
(* of its body (a character, or "<any>" for an unescaped dot), $ present   *)
(* (end), the g and y flags, and its mutable lastIndex.  A string keeps    *)
(* its characters in body.                                                 *)
(***************************************************************************)
MkRegExp(start, body, end, global, sticky) ==
    [kind |-> "RegExp", start |-> start, body |-> body, end |-> end,
     global |-> global, sticky |-> sticky, lastIndex |-> 0]

MkString(chars) ==
    [kind |-> "string", start |-> FALSE, body |-> chars, end |-> FALSE,
     global |-> FALSE, sticky |-> FALSE, lastIndex |-> 0]

\* new RegExp(item) of files.js:186: the characters of the string are the
\* pattern's source, so a dot is the wildcard; no anchors, no flags
NewRegExp(item) ==
    [kind |-> "RegExp", start |-> FALSE,
     body |-> [i \in 1..Len(item.body) |->
                  IF item.body[i] = "." THEN "<any>" ELSE item.body[i]],
     end |-> FALSE, global |-> FALSE, sticky |-> FALSE, lastIndex |-> 0]

AtomMatches(atom, c) == atom = "<any>" \/ atom = c

\* the pattern matches s at the 0-based position i
MatchAt(re, s, i) ==
    /\ re.start => i = 0
    /\ i + Len(re.body) <= Len(s)
    /\ \A n \in 1..Len(re.body) : AtomMatches(re.body[n], s[i + n])
    /\ re.end => i + Len(re.body) = Len(s)

\* regex.test(s): RegExpBuiltinExec.  With the g or y flag the search starts
\* at lastIndex and lastIndex is written back; otherwise it starts at 0.
RegExpTest(re, s) ==
    LET stateful == re.global \/ re.sticky
        from == IF stateful THEN re.lastIndex ELSE 0
        candidates == IF from > Len(s) THEN {}
                      ELSE IF re.sticky THEN {from} ELSE from..Len(s)
        found == {i \in candidates : MatchAt(re, s, i)}
    IN  IF found = {}
        THEN [result |-> FALSE,
              regex |-> IF stateful THEN [re EXCEPT !.lastIndex = 0] ELSE re]
        ELSE LET first == CHOOSE i \in found : \A j \in found : i <= j
             IN  [result |-> TRUE,
                  regex |-> IF stateful
                            THEN [re EXCEPT !.lastIndex = first + Len(re.body)]
                            ELSE re]

\* meta.options.mimeTypes.some((item) => ...) of files.js:185-188: the items
\* are tried in order up to the first that tests true; a RegExp item is
\* tested itself (and keeps its lastIndex), a string item through a fresh
\* new RegExp(item)
RECURSIVE SomeMatches(_, _, _)
SomeMatches(mimeTypes, i, mimetype) ==
    IF i > Len(mimeTypes)
    THEN [matched |-> FALSE, mimeTypes |-> mimeTypes]
    ELSE LET item == mimeTypes[i]
             regex == IF item.kind = "RegExp" THEN item ELSE NewRegExp(item)
             t == RegExpTest(regex, mimetype)
             after == IF item.kind = "RegExp"
                      THEN [mimeTypes EXCEPT ![i] = t.regex]
                      ELSE mimeTypes
         IN  IF t.result
             THEN [matched |-> TRUE, mimeTypes |-> after]
             ELSE SomeMatches(after, i + 1, mimetype)

(***************************************************************************)
(* Sizes.  options.minSize / maxSize is a number or a string; a string is  *)
(* its leading digits (-1: none) and the rest of it (the unit).            *)
(***************************************************************************)
NumberSize(n) == [type |-> "number", digits |-> n, unit |-> ""]

StringSize(n, unit) == [type |-> "string", digits |-> n, unit |-> unit]

\* a JavaScript number that may be NaN
Num(n) == [nan |-> FALSE, val |-> n]

NaN == [nan |-> TRUE, val |-> 0]

\* the units of the bytes package (its parse is case-insensitive)
UnitMultiplier(unit) ==
    CASE unit \in {"kb", "KB"} -> Some(KB)
      [] unit \in {"mb", "MB"} -> Some(KB * KB)
      [] unit \in {"gb", "GB"} -> Some(KB * KB * KB)
      [] OTHER -> Undef

\* bytes(value) for a string, as called at files.ts:15: digits with a known
\* unit are multiplied; anything else goes through parseInt(value, 10), which
\* reads the leading digits and ignores the rest; no digits at all give null
BytesParse(value) ==
    IF value.digits >= 0 /\ IsDef(UnitMultiplier(value.unit))
    THEN Some(Val(UnitMultiplier(value.unit)) * value.digits)
    ELSE IF value.digits >= 0 THEN Some(value.digits) ELSE Undef

\* parseFileSize, files.ts:11-16: parseFloat(null) is NaN
parseFileSize(value) ==
    IF value.type = "number" THEN Num(value.digits)
    ELSE LET b == BytesParse(value)
         IN  IF IsDef(b) THEN Num(Val(b)) ELSE NaN

\* if (meta.options.minSize): undefined, 0 and "" are falsy
TruthySize(opt) ==
    /\ IsDef(opt)
    /\ IF Val(opt).type = "number" THEN Val(opt).digits # 0
       ELSE ~(Val(opt).digits = -1 /\ Val(opt).unit = "")

\* the variant of TruthyNumber that takes every declared number, 0 included
DeclaredNumber(opt) == IsDef(opt)

\* if (meta.options.minFiles): undefined and 0 are falsy
TruthyNumber(opt) == IsDef(opt) /\ Val(opt) # 0

\* the variant of IsTooSmall that also rejects a file of exactly the bound
IsTooSmallStrict(size, bound) == ~bound.nan /\ size <= bound.val

\* files.ts:209  file.size < minSizeBytes (false when the bound is NaN)
IsTooSmall(size, bound) == ~bound.nan /\ size < bound.val

\* files.ts:219  file.size > maxSizeBytes (false when the bound is NaN)
IsTooLarge(size, bound) == ~bound.nan /\ size > bound.val

(***************************************************************************)
(* FileFieldOptions and FileFieldMetadata, files.ts:18-35.                 *)
(***************************************************************************)
NoOptions ==
    [fieldName |-> Undef, required |-> FALSE, maxSize |-> Undef,
     minSize |-> Undef, maxFiles |-> Undef, minFiles |-> Undef,
     mimeTypes |-> Undef]

MkMeta(propertyKey, isArray, options) ==
    [propertyKey |-> propertyKey, isArray |-> isArray, options |-> options]

\* meta.options.fieldName || meta.propertyKey, files.ts:156 and 167
FieldNameOf(meta) ==
    IF IsDef(meta.options.fieldName) /\ Val(meta.options.fieldName) # ""
    THEN Val(meta.options.fieldName)
    ELSE meta.propertyKey

\* the variant of MaxCount without the cap of one file on a scalar field
MaxCountUncapped(meta) ==
    IF IsDef(meta.options.maxFiles) THEN Val(meta.options.maxFiles)
    ELSE DefaultMaxCount

\* the variant of MaxCount whose default for an array field is one file
MaxCountDefaultOne(meta) ==
    IF meta.isArray /\ IsDef(meta.options.maxFiles)
    THEN Val(meta.options.maxFiles)
    ELSE 1

\* files.ts:157  meta.isArray ? (meta.options.maxFiles ?? 99) : 1
MaxCount(meta) ==
    IF meta.isArray
    THEN (IF IsDef(meta.options.maxFiles) THEN Val(meta.options.maxFiles)
          ELSE DefaultMaxCount)
    ELSE 1

\* fileFields.map(...), files.ts:155-159
MulterFields(fileFields) ==
    [i \in 1..Len(fileFields) |->
        [name |-> FieldNameOf(fileFields[i]), maxCount |-> MaxCount(fileFields[i])]]

(***************************************************************************)
(* The errors handed to next(), by kind, field name and file position      *)
(* (0: none); the message texts of files.ts carry just these.              *)
(***************************************************************************)
MkError(kind, field, file) == [kind |-> kind, field |-> field, file |-> file]

\* next() without an argument
NoArg == MkError("none", "", 0)

\* `No files uploaded for field: ${fieldName}`, files.ts:172
NoFiles(field) == MkError("NoFiles", field, 0)

\* `Too few files uploaded for '${fieldName}'...`, files.ts:187
TooFew(field) == MkError("TooFew", field, 0)

\* `Too many files uploaded for '${fieldName}'...`, files.ts:194
TooMany(field) == MkError("TooMany", field, 0)

\* `File ${file.originalname} is too small...`, files.ts:212
TooSmall(field, j) == MkError("TooSmall", field, j)

\* `File ${file.originalname} is too large...`, files.ts:222
TooLarge(field, j) == MkError("TooLarge", field, j)

\* `File ${file.originalname} has invalid type...`, files.ts:232
InvalidType(field, j) == MkError("InvalidType", field, j)

\* multer's MulterError('LIMIT_UNEXPECTED_FILE', fieldname)
UnexpectedFile(field) == MkError("LIMIT_UNEXPECTED_FILE", field, 0)

\* any other error of the multipart parser (a malformed body)
ParseFailure == MkError("PARSE_ERROR", "", 0)

\* for (const file of files) over a value that is no array
NotIterable(field) == MkError("TypeError", field, 0)

(***************************************************************************)
(* req.files, the request's file container: per field name, a property     *)
(* that is missing, set to undefined, an array of files or a single file.  *)
(***************************************************************************)
FieldNames == {"avatar", "docs"}

Missing == [tag |-> "missing", files |-> <<>>]

UndefinedEntry == [tag |-> "undefined", files |-> <<>>]

ArrayEntry(files) == [tag |-> "array", files |-> files]

FileEntry(file) == [tag |-> "file", files |-> <<file>>]

EmptyContainer == [n \in FieldNames |-> Missing]

(***************************************************************************)
(* The validation callback, files.ts:166-241.                              *)
(***************************************************************************)
\* the body of for (const file of files), files.ts:206-239, for file j.
\* visited collects the <<field position, file position>> whose checks ran.
CheckFile(meta, k, files, j, visited) ==
    LET file == files[j]
        seen == visited \cup {<<k, j>>}
        name == FieldNameOf(meta)
        opts == meta.options
    IN
      IF /\ TruthySize(opts.minSize)
         /\ IsTooSmall(file.size, parseFileSize(Val(opts.minSize)))
      THEN [err |-> Some(TooSmall(name, j)), meta |-> meta, visited |-> seen]
      ELSE IF /\ TruthySize(opts.maxSize)
              /\ IsTooLarge(file.size, parseFileSize(Val(opts.maxSize)))
      THEN [err |-> Some(TooLarge(name, j)), meta |-> meta, visited |-> seen]
      ELSE IF IsDef(opts.mimeTypes) /\ Len(Val(opts.mimeTypes)) > 0
      THEN LET m == SomeMatches(Val(opts.mimeTypes), 1, file.mimetype)
               tested == [meta EXCEPT !.options.mimeTypes = Some(m.mimeTypes)]
           IN  [err |-> IF m.matched THEN Undef ELSE Some(InvalidType(name, j)),
                meta |-> tested, visited |-> seen]
      ELSE [err |-> Undef, meta |-> meta, visited |-> seen]

\* the loop over files lo..hi in order, stopping at the first error (return
\* next(...)).  The range is run as its first half, then its second half,
\* which is the same sequence of bodies and keeps the evaluation shallow
\* for the longest file lists.
RECURSIVE CheckFiles(_, _, _, _, _, _)
CheckFiles(meta, k, files, lo, hi, visited) ==
    IF lo > hi THEN [err |-> Undef, meta |-> meta, visited |-> visited]
    ELSE IF lo = hi THEN CheckFile(meta, k, files, lo, visited)
    ELSE LET mid == (lo + hi) \div 2
             first == CheckFiles(meta, k, files, lo, mid, visited)
         IN  IF IsDef(first.err) THEN first
             ELSE CheckFiles(first.meta, k, files, mid + 1, hi, first.visited)

\* for (const meta of fileFields), files.ts:166-241, from field k on: the
\* argument of next(), the fields (their RegExp objects tested), req.files
\* as written so far, and the files whose checks ran
RECURSIVE ValidateFields(_, _, _, _)
ValidateFields(fileFields, k, container, visited) ==
    IF k > Len(fileFields)
    THEN [arg |-> NoArg, fileFields |-> fileFields, files |-> container,
          visited |-> visited]
    ELSE
      LET meta == fileFields[k]
          name == FieldNameOf(meta)
          entry == container[name]
          files == entry.files
          Stop(e, fields, c, v) ==
              [arg |-> e, fileFields |-> fields, files |-> c, visited |-> v]
      IN
        IF entry.tag \in {"missing", "undefined"}
           \/ (entry.tag = "array" /\ Len(files) = 0)
        THEN \* files.ts:170-181
             IF meta.options.required
             THEN Stop(NoFiles(name), fileFields, container, visited)
             ELSE ValidateFields(fileFields, k + 1,
                     [container EXCEPT ![name] =
                         IF meta.isArray THEN ArrayEntry(<<>>) ELSE UndefinedEntry],
                     visited)
        ELSE IF entry.tag = "file"
        THEN \* a single file object has no length and is not iterable
             Stop(NotIterable(name), fileFields, container, visited)
        ELSE IF /\ meta.isArray
                /\ TruthyNumber(meta.options.minFiles)
                /\ Len(files) < Val(meta.options.minFiles)
        THEN Stop(TooFew(name), fileFields, container, visited)
        ELSE IF /\ meta.isArray
                /\ TruthyNumber(meta.options.maxFiles)
                /\ Len(files) > Val(meta.options.maxFiles)
        THEN Stop(TooMany(name), fileFields, container, visited)
        ELSE
          LET \* files.ts:198-204: a scalar field keeps files[0]
              kept == IF meta.isArray THEN container
                      ELSE [container EXCEPT ![name] = FileEntry(files[1])]
              c == CheckFiles(meta, k, files, 1, Len(files), visited)
              fields == [fileFields EXCEPT ![k] = c.meta]
          IN  IF IsDef(c.err)
              THEN Stop(Val(c.err), fields, kept, c.visited)
              ELSE ValidateFields(fields, k + 1, kept, c.visited)

(***************************************************************************)
(* The decorated program: the decorator applications of the DTO class, in  *)
(* the order they run, then UseMulter(dtoClass) on the controller method.  *)
(***************************************************************************)
\* UploadDto is the class given to UseMulter; ExtDto extends it; OtherDto is
\* unrelated
Classes == {"UploadDto", "ExtDto", "OtherDto"}

\* the class a class extends ("Object": none)
Parent == [c \in Classes |-> IF c = "ExtDto" THEN "UploadDto" ELSE "Object"]

Decorate(op, cls, key, options) ==
    [op |-> op, cls |-> cls, key |-> key, options |-> options]

FileDecorators == {"IsFile", "IsFiles"}

SizeValues ==
    {Undef, Some(NumberSize(KB)), Some(StringSize(1, "KB")),
     Some(StringSize(1, "XB")), Some(StringSize(-1, "big"))}

MimeValues ==
    {Undef, Some(<<>>),
     Some(<<MkString(PNG)>>),
     Some(<<MkString(PNG), MkString(JPEG)>>),
     Some(<<MkRegExp(TRUE, IMAGE_SLASH, FALSE, FALSE, FALSE)>>),
     Some(<<MkRegExp(FALSE, PNG, FALSE, TRUE, FALSE)>>)}

\* options that vary the size bounds, the file-count bounds, the allowlist
SizeOptions ==
    {[NoOptions EXCEPT !.required = r, !.minSize = a, !.maxSize = b] :
        r \in BOOLEAN, a \in SizeValues, b \in SizeValues}

CountOptions ==
    {[NoOptions EXCEPT !.required = r, !.minFiles = a, !.maxFiles = b] :
        r \in BOOLEAN,
        a \in {Undef, Some(MinFilesDeclared)},
        b \in {Undef, Some(MaxFilesDeclared)}}

MimeOptions ==
    {[NoOptions EXCEPT !.required = r, !.mimeTypes = m] :
        r \in BOOLEAN, m \in MimeValues}

NamedOptions ==
    {[NoOptions EXCEPT !.required = r, !.fieldName = Some("docs")] :
        r \in BOOLEAN}

\* the options of the fields of a two-field DTO
PairOptions ==
    {[NoOptions EXCEPT !.required = r, !.maxSize = Some(StringSize(1, "KB")),
                       !.mimeTypes = Some(<<MkString(PNG)>>)] : r \in BOOLEAN}

UseMulterStmt == Decorate("UseMulter", "UploadDto", "", NoOptions)

Programs ==
    {<<UseMulterStmt>>}
    \cup {<<Decorate(op, "UploadDto", "avatar", o), UseMulterStmt>> :
            op \in FileDecorators,
            o \in SizeOptions \cup CountOptions \cup MimeOptions}
    \cup {<<Decorate(op, "UploadDto", "upload", o), UseMulterStmt>> :
            op \in FileDecorators, o \in NamedOptions}
    \cup {<<Decorate(op1, "UploadDto", "avatar", o1),
            Decorate(op2, "UploadDto", "docs", o2), UseMulterStmt>> :
            op1 \in FileDecorators, op2 \in FileDecorators,
            o1 \in PairOptions, o2 \in PairOptions}

(***************************************************************************)
(* The requests: per field name, the files the client sends under it.      *)
(***************************************************************************)
Uniform(n, file) == [i \in 1..n |-> file]

UniformCounts ==
    {MinFilesDeclared - 1, MinFilesDeclared, MaxFilesDeclared,
     MaxFilesDeclared + 1, DefaultMaxCount, DefaultMaxCount + 1}

\* every file list up to MaxLen, and the longer lists of one repeated file
FileSeqs ==
    UNION {[1..n -> Files] : n \in 0..MaxLen}
    \cup {Uniform(n, MkFile(KB, PNG)) : n \in UniformCounts}

\* the lists of at most one file
SingleSeqs == {<<>>} \cup {<<f>> : f \in Files}

\* what a client sends under a name the form does not declare
StraySeqs == {<<>>, <<MkFile(KB, PNG)>>}

(***************************************************************************)
(* State.                                                                  *)
(***************************************************************************)
VARIABLES
    program,    \* the decorator applications still to run
    arrays,     \* the heap of FileFieldMetadata[] arrays, by reference 1..
    ownMeta,    \* FILE_FIELDS_METADATA own metadata of a class: a reference, 0: none
    handler,    \* the middleware UseMulter registered: fileFields, multerFields
    req,        \* the request in progress
    nextCalls,  \* the arguments of the calls of next() for this request
    thrown,     \* the callback ended by throwing
    visited     \* the files of this request whose size and type checks ran

\* AsyncResolver and the IsEntity properties, decorators.ts:15-75
VARIABLES
    entities,   \* per property decorated with IsEntity: its type, what was applied
    tasks,      \* AsyncResolver.tasks
    calls       \* the calls of AsyncResolver.resolveAll()

\* the OpenAPI step of UseMulter, files.ts:245-296
VARIABLES
    schema      \* dtoSchema of the class given to UseMulter, once generated

\* a request through a RequestGuard middleware, decorators.ts:145-164
VARIABLES
    guard       \* the validator's outcome, the next() calls, the responses sent

\* a BodyMultipart parameter, files.ts:107-121
VARIABLES
    bodyReq     \* req.body, req.files, and the value the decorator returned

\* a RequestResolver parameter, decorators.ts:166-190
VARIABLES
    param       \* the extractor's outcome and how value(action) settled

uploadVars == <<program, arrays, ownMeta, handler, req, nextCalls, thrown, visited>>

resolverVars == <<entities, tasks, calls>>

vars == <<uploadVars, resolverVars, schema, guard, bodyReq, param>>

\* what the upload actions leave alone, and what the resolver actions do
nonUploadVars == <<resolverVars, schema, guard, bodyReq, param>>

nonResolverVars == <<uploadVars, schema, guard, bodyReq, param>>

nonSchemaVars == <<uploadVars, resolverVars, guard, bodyReq, param>>

nonGuardVars == <<uploadVars, resolverVars, schema, bodyReq, param>>

nonBodyVars == <<uploadVars, resolverVars, schema, guard, param>>

nonParamVars == <<uploadVars, resolverVars, schema, guard, bodyReq>>

\* the number of properties decorated with IsEntity, and of resolveAll() calls
MaxProps == 2

MaxCalls == 2

Props == 1..MaxProps

\* a property IsEntity has not decorated (yet)
Undecorated ==
    [each |-> FALSE, typePromise |-> "none", type |-> "none",
     typeApplied |-> FALSE, schemaRef |-> "none", logged |-> FALSE]

\* no property decorated, no task, no call
ResolverIdle ==
    /\ entities = [p \in Props |-> Undecorated]
    /\ tasks = <<>>
    /\ calls = <<>>

\* the names of dtoSchema.properties: property keys and upload names
SchemaNames == FieldNames \cup {"upload"}

\* a property of the JSON schema (its description left out)
MkProperty(type, format, items, minItems, maxItems) ==
    [type |-> type, format |-> format, items |-> items,
     minItems |-> minItems, maxItems |-> maxItems]

\* no schema generated yet
OpenAPIIdle ==
    schema = [generated |-> FALSE, threw |-> FALSE,
              properties |-> [n \in SchemaNames |-> Undef]]

\* the requests one guard serves in the model
MaxGuardRequests == 2

\* no request in the guard, after `served` requests
IdleGuard(served) ==
    [phase |-> "idle", isValid |-> Undef, nexts |-> 0, responses |-> <<>>,
     logged |-> FALSE, served |-> served]

GuardIdle == guard = IdleGuard(0)

\* the keys of req.body and req.files in the model
Keys == {"title", "avatar", "files"}

\* an object without any key
EmptyObject == [k \in Keys |-> "absent"]

\* no BodyMultipart parameter being resolved
IdleBody ==
    [phase |-> "idle", type |-> FALSE, body |-> Undef, files |-> Undef,
     result |-> EmptyObject]

BodyIdle == bodyReq = IdleBody

\* a JavaScript value in the model: null, undefined, 0, "", false, NaN, or
\* an object, plain or an instance of the DTO class, with its properties
MkValue(kind, cls, fields) == [kind |-> kind, cls |-> cls, fields |-> fields]

Null == MkValue("null", "", EmptyObject)

\* the extractor has not been called
NotCalled == [state |-> "none", value |-> Null]

\* value(action) has not settled
Unsettled == [state |-> "pending", value |-> Null, logged |-> FALSE]

\* no RequestResolver parameter being resolved
IdleParam ==
    [phase |-> "idle", dtoClass |-> FALSE, extractor |-> NotCalled,
     outcome |-> Unsettled]

ParamIdle == param = IdleParam

IdleReq ==
    [phase |-> "idle", multipart |-> FALSE,
     sent |-> [n \in FieldNames |-> <<>>],
     err |-> Undef, hasFiles |-> FALSE, files |-> EmptyContainer]

Init ==
    /\ program \in Programs
    /\ arrays = <<>>
    /\ ownMeta = [c \in Classes |-> 0]
    /\ handler = [registered |-> FALSE, fileFields |-> 0, multerFields |-> <<>>]
    /\ req = IdleReq
    /\ nextCalls = <<>>
    /\ thrown = FALSE
    /\ visited = {}
    /\ ResolverIdle
    /\ OpenAPIIdle
    /\ GuardIdle
    /\ BodyIdle
    /\ ParamIdle

(***************************************************************************)
(* Declaration time.                                                       *)
(***************************************************************************)
\* Reflect.getMetadata(FILE_FIELDS_METADATA, cls): the class's own metadata,
\* else that of the nearest ancestor that has some; 0: undefined
RECURSIVE GetMetadata(_, _)
GetMetadata(own, cls) ==
    IF cls \notin Classes THEN 0
    ELSE IF own[cls] # 0 THEN own[cls]
    ELSE GetMetadata(own, Parent[cls])

\* storeFileFieldMetadata, files.ts:39-53: push onto the array found (or a
\* new one) and define it as the class's own metadata
storeFileFieldMetadata(cls, propertyKey, isArray, options) ==
    LET existing == GetMetadata(ownMeta, cls)
        entry == MkMeta(propertyKey, isArray, options)
    IN  IF existing = 0
        THEN /\ arrays' = Append(arrays, <<entry>>)
             /\ ownMeta' = [ownMeta EXCEPT ![cls] = Len(arrays) + 1]
        ELSE /\ arrays' = [arrays EXCEPT ![existing] = Append(@, entry)]
             /\ ownMeta' = [ownMeta EXCEPT ![cls] = existing]

\* @IsFile(options), files.ts:62-77
IsFile ==
    /\ program # <<>>
    /\ Head(program).op = "IsFile"
    /\ storeFileFieldMetadata(Head(program).cls, Head(program).key, FALSE,
                              Head(program).options)
    /\ program' = Tail(program)
    /\ UNCHANGED <<handler, req, nextCalls, thrown, visited>>
    /\ UNCHANGED nonUploadVars

\* @IsFiles(options), files.ts:82-102
IsFiles ==
    /\ program # <<>>
    /\ Head(program).op = "IsFiles"
    /\ storeFileFieldMetadata(Head(program).cls, Head(program).key, TRUE,
                              Head(program).options)
    /\ program' = Tail(program)
    /\ UNCHANGED <<handler, req, nextCalls, thrown, visited>>
    /\ UNCHANGED nonUploadVars

\* @UseMulter(dtoClass) applied to the method, files.ts:153-159:
\* fileFields is the metadata array itself (or a new empty one),
\* multerFields a new array computed from it
UseMulter ==
    /\ program # <<>>
    /\ Head(program).op = "UseMulter"
    /\ LET found == GetMetadata(ownMeta, Head(program).cls)
           ref == IF found = 0 THEN Len(arrays) + 1 ELSE found
       IN  /\ arrays' = IF found = 0 THEN Append(arrays, <<>>) ELSE arrays
           /\ handler' = [registered |-> TRUE, fileFields |-> ref,
                          multerFields |-> MulterFields(arrays'[ref])]
    /\ program' = Tail(program)
    /\ UNCHANGED <<ownMeta, req, nextCalls, thrown, visited>>
    /\ UNCHANGED nonUploadVars

(***************************************************************************)
(* Request time: the middleware of files.ts:161-243.                       *)
(***************************************************************************)
\* the fields the handler validates: the array fileFields refers to
FileFields == arrays[handler.fileFields]

DeclaredNames == {handler.multerFields[i].name : i \in DOMAIN handler.multerFields}

\* the file lists a request may carry under name n: any list of FileSeqs
\* under the name `main`, at most one file under the other declared names,
\* StraySeqs under a name the form does not declare; a request that is not
\* multipart carries no file
SentUnder(n, main, multipart) ==
    IF ~multipart THEN {<<>>}
    ELSE IF n \notin DeclaredNames THEN StraySeqs
    ELSE IF n = main THEN FileSeqs
    ELSE SingleSeqs

\* a request arrives: multipart/form-data with files, or a request of
\* another content type
Receive ==
    /\ program = <<>>
    /\ handler.registered
    /\ req.phase = "idle"
    /\ \E multipart \in BOOLEAN, main \in FieldNames :
       \E a \in SentUnder("avatar", main, multipart),
          d \in SentUnder("docs", main, multipart) :
          req' = [IdleReq EXCEPT !.phase = "received",
                                 !.multipart = multipart,
                                 !.sent = [n \in FieldNames |->
                                             IF n = "avatar" THEN a ELSE d]]
    /\ UNCHANGED <<program, arrays, ownMeta, handler, nextCalls, thrown, visited>>
    /\ UNCHANGED nonUploadVars

\* multer's count of the files still accepted under a name: the maxCount of
\* the (last) field of that name, 0 for a name that is no field
FilesLeft(multerFields, name) ==
    LET at == {i \in DOMAIN multerFields : multerFields[i].name = name}
    IN  IF at = {} THEN 0
        ELSE multerFields[CHOOSE i \in at : \A j \in at : j <= i].maxCount

\* what uploadEngine.fields(multerFields) can hand to its callback: nothing
\* at all for a request that is not multipart (req.files stays undefined);
\* an error; or req.files, holding an array for every name with files
MulterOutcomes(r, multerFields) ==
    IF ~r.multipart
    THEN {[err |-> Undef, hasFiles |-> FALSE, files |-> EmptyContainer]}
    ELSE
      LET over == {n \in FieldNames : Len(r.sent[n]) > FilesLeft(multerFields, n)}
      IN  {[err |-> Some(ParseFailure), hasFiles |-> TRUE, files |-> EmptyContainer]}
          \cup (IF over # {}
                THEN {[err |-> Some(UnexpectedFile(n)), hasFiles |-> TRUE,
                       files |-> EmptyContainer] : n \in over}
                ELSE {[err |-> Undef, hasFiles |-> TRUE,
                       files |-> [n \in FieldNames |->
                                    IF Len(r.sent[n]) > 0
                                    THEN ArrayEntry(r.sent[n]) ELSE Missing]]})

\* uploadEngine.fields(multerFields)(req, res, ...), files.ts:162
MulterParse ==
    /\ req.phase = "received"
    /\ \E o \in MulterOutcomes(req, handler.multerFields) :
          req' = [req EXCEPT !.phase = "parsed", !.err = o.err,
                             !.hasFiles = o.hasFiles, !.files = o.files]
    /\ UNCHANGED <<program, arrays, ownMeta, handler, nextCalls, thrown, visited>>
    /\ UNCHANGED nonUploadVars

\* the callback (err) => {...}, files.ts:162-242
Callback ==
    /\ req.phase = "parsed"
    /\ IF IsDef(req.err)
       THEN \* if (err) return next(err)
            /\ nextCalls' = Append(nextCalls, Val(req.err))
            /\ req' = [req EXCEPT !.phase = "done"]
            /\ UNCHANGED <<arrays, thrown, visited>>
       ELSE IF ~req.hasFiles
       THEN \* if (!req.files) return next()
            /\ nextCalls' = Append(nextCalls, NoArg)
            /\ req' = [req EXCEPT !.phase = "done"]
            /\ UNCHANGED <<arrays, thrown, visited>>
       ELSE LET v == ValidateFields(FileFields, 1, req.files, {})
            IN  /\ IF v.arg.kind = "TypeError"
                   THEN thrown' = TRUE /\ nextCalls' = nextCalls
                   ELSE thrown' = thrown /\ nextCalls' = Append(nextCalls, v.arg)
                /\ req' = [req EXCEPT !.phase = "done", !.files = v.files]
                /\ arrays' = [arrays EXCEPT ![handler.fileFields] = v.fileFields]
                /\ visited' = v.visited
    /\ UNCHANGED <<program, ownMeta, handler>>
    /\ UNCHANGED nonUploadVars

\* the request is over; the next one starts from the same handler
NextRequest ==
    /\ req.phase = "done"
    /\ req' = IdleReq
    /\ nextCalls' = <<>>
    /\ thrown' = FALSE
    /\ visited' = {}
    /\ UNCHANGED <<program, arrays, ownMeta, handler>>
    /\ UNCHANGED nonUploadVars

Next ==
    \/ IsFile
    \/ IsFiles
    \/ UseMulter
    \/ Receive
    \/ MulterParse
    \/ Callback
    \/ NextRequest

Spec == Init /\ [][Next]_vars

(***************************************************************************)
(* Programs in which a class body is evaluated after the controller: one   *)
(* more IsFile / IsFiles runs after UseMulter(UploadDto) was applied, on a *)
(* new property (docs) or on one that redeclares avatar.                   *)
(***************************************************************************)
LatePrograms ==
    {<<Decorate(op1, "UploadDto", "avatar", o1), UseMulterStmt,
       Decorate(op2, cls, key, o2)>> :
        op1 \in FileDecorators, op2 \in FileDecorators,
        o1 \in PairOptions, o2 \in PairOptions, cls \in Classes,
        key \in {"avatar", "docs"}}
    \cup {<<UseMulterStmt, Decorate(op, cls, "docs", o)>> :
            op \in FileDecorators, o \in PairOptions, cls \in Classes}

InitLate ==
    /\ program \in LatePrograms
    /\ arrays = <<>>
    /\ ownMeta = [c \in Classes |-> 0]
    /\ handler = [registered |-> FALSE, fileFields |-> 0, multerFields |-> <<>>]
    /\ req = IdleReq
    /\ nextCalls = <<>>
    /\ thrown = FALSE
    /\ visited = {}
    /\ ResolverIdle
    /\ OpenAPIIdle
    /\ GuardIdle
    /\ BodyIdle
    /\ ParamIdle

SpecLate == InitLate /\ [][Next]_vars

(***************************************************************************)
(* AsyncResolver and IsEntity, decorators.ts:15-75.  A type function       *)
(* returns a class, or a promise that later fulfils with a value or        *)
(* rejects.  A task is the promise referenceType.then(...).catch(...).     *)
(***************************************************************************)
\* the values a type promise fulfils with: a class, or undefined
TypeValues == {"Entity", "undefined"}

\* ApplyJsonSchemaType, decorators.ts:44-52: nothing for a falsy type
ApplyJsonSchemaType(type, isArray) ==
    IF type = "undefined" THEN "none"
    ELSE IF isArray THEN "array" ELSE "item"

\* the variant of TaskOutcome of a task without its .catch(...)
TaskOutcomeNoCatch(typePromise) ==
    IF typePromise = "rejected" THEN "rejected" ELSE "fulfilled"

\* how the task of decorators.ts:63-68 settles once its type promise has:
\* the then-handler returns, or the catch-handler logs and returns
TaskOutcome(typePromise) == "fulfilled"

\* the variant of PromiseAll that fulfils as soon as one promise has
PromiseAllAny(states) ==
    IF \E i \in DOMAIN states : states[i] = "rejected" THEN "rejected"
    ELSE IF \E i \in DOMAIN states : states[i] = "fulfilled" THEN "fulfilled"
    ELSE "pending"

\* Promise.all(this.tasks), decorators.ts:24: rejected once one is,
\* fulfilled once all are
PromiseAll(states) ==
    IF \E i \in DOMAIN states : states[i] = "rejected" THEN "rejected"
    ELSE IF \A i \in DOMAIN states : states[i] = "fulfilled" THEN "fulfilled"
    ELSE "pending"

\* the states of the tasks 1..n, the ones a call of resolveAll() awaits
TaskStates(n) == [i \in 1..n |-> tasks[i].state]

\* @IsEntity(typeFunction, {each}) on property p, decorators.ts:54-75
IsEntity ==
    /\ \E p \in Props, each \in BOOLEAN, deferred \in BOOLEAN :
          /\ entities[p].typePromise = "none"
          /\ IF deferred
             THEN /\ entities' = [entities EXCEPT ![p] =
                        [Undecorated EXCEPT !.each = each,
                                            !.typePromise = "pending"]]
                  /\ tasks' = Append(tasks, [prop |-> p, state |-> "pending"])
             ELSE /\ entities' = [entities EXCEPT ![p] =
                        [Undecorated EXCEPT
                            !.each = each, !.typePromise = "sync",
                            !.type = "Entity", !.typeApplied = TRUE,
                            !.schemaRef = ApplyJsonSchemaType("Entity", each)]]
                  /\ tasks' = tasks
    /\ UNCHANGED calls
    /\ UNCHANGED nonResolverVars

\* the promise a type function returned settles (a dynamic import ends)
SettleType ==
    /\ \E p \in Props :
          /\ entities[p].typePromise = "pending"
          /\ \/ \E t \in TypeValues :
                   entities' = [entities EXCEPT ![p].typePromise = "fulfilled",
                                                ![p].type = t]
             \/ entities' = [entities EXCEPT ![p].typePromise = "rejected"]
    /\ UNCHANGED <<tasks, calls>>
    /\ UNCHANGED nonResolverVars

\* the reaction of decorators.ts:63-68 runs for a settled type promise: the
\* then-handler applies Type and the schema reference, or the catch-handler
\* logs; the task settles
TypeReaction ==
    /\ \E i \in DOMAIN tasks :
          LET p == tasks[i].prop
              e == entities[p]
          IN  /\ tasks[i].state = "pending"
              /\ e.typePromise \in {"fulfilled", "rejected"}
              /\ entities' = [entities EXCEPT ![p] =
                    IF e.typePromise = "fulfilled"
                    THEN [e EXCEPT !.typeApplied = TRUE,
                                   !.schemaRef = ApplyJsonSchemaType(e.type, e.each)]
                    ELSE [e EXCEPT !.logged = TRUE]]
              /\ tasks' = [tasks EXCEPT ![i].state = TaskOutcome(e.typePromise)]
    /\ UNCHANGED calls
    /\ UNCHANGED nonResolverVars

\* AsyncResolver.resolveAll() is called, decorators.ts:22-26: with no task it
\* completes at once, else it awaits Promise.all of the tasks there are
ResolveAll ==
    /\ Len(calls) < MaxCalls
    /\ calls' = Append(calls,
          [upto |-> Len(tasks),
           state |-> IF Len(tasks) > 0 THEN "awaiting" ELSE "completed"])
    /\ UNCHANGED <<entities, tasks>>
    /\ UNCHANGED nonResolverVars

\* the await of decorators.ts:24 ends: resolveAll() completes, or rejects
AwaitEnds ==
    /\ \E c \in DOMAIN calls :
          LET all == PromiseAll(TaskStates(calls[c].upto))
          IN  /\ calls[c].state = "awaiting"
              /\ all # "pending"
              /\ calls' = [calls EXCEPT ![c].state =
                    IF all = "fulfilled" THEN "completed" ELSE "rejected"]
    /\ UNCHANGED <<entities, tasks>>
    /\ UNCHANGED nonResolverVars

\* the upload decorators idle: no program, no handler, no request
UploadIdle ==
    /\ program = <<>>
    /\ arrays = <<>>
    /\ ownMeta = [c \in Classes |-> 0]
    /\ handler = [registered |-> FALSE, fileFields |-> 0, multerFields |-> <<>>]
    /\ req = IdleReq
    /\ nextCalls = <<>>
    /\ thrown = FALSE
    /\ visited = {}

InitResolver ==
    UploadIdle /\ ResolverIdle /\ OpenAPIIdle /\ GuardIdle /\ BodyIdle /\ ParamIdle

NextResolver ==
    \/ IsEntity
    \/ SettleType
    \/ TypeReaction
    \/ ResolveAll
    \/ AwaitEnds

SpecResolver == InitResolver /\ [][NextResolver]_vars

(***************************************************************************)
(* The OpenAPI step of UseMulter, files.ts:245-296: when the document is   *)
(* generated, the schema of the DTO class gets one property per field.     *)
(***************************************************************************)
\* { type: "string", format: "binary" }, files.ts:69-73 and 283-287
BinaryProperty == MkProperty("string", "binary", "none", Undef, Undef)

\* { type: "array", items: { type: "string", format: "binary" } } with the
\* minItems / maxItems of if (meta.options.minFiles) ..., files.ts:267-281
ArrayProperty(options) ==
    MkProperty("array", "none", "binary",
               IF TruthyNumber(options.minFiles) THEN options.minFiles ELSE Undef,
               IF TruthyNumber(options.maxFiles) THEN options.maxFiles ELSE Undef)

\* schemas[dtoClass.name].properties as class-validator-jsonschema builds
\* it from the JSONSchema(...) of IsFile / IsFiles: one property per
\* property key, files.ts:69-74 and 92-100
RECURSIVE ValidatorSchema(_, _)
ValidatorSchema(fileFields, k) ==
    IF k = 0 THEN [n \in SchemaNames |-> Undef]
    ELSE [ValidatorSchema(fileFields, k - 1) EXCEPT ![fileFields[k].propertyKey] =
            Some(IF fileFields[k].isArray
                 THEN MkProperty("array", "none", "binary", Undef, Undef)
                 ELSE BinaryProperty)]

\* for (const meta of fileFields), files.ts:265-289, over fields 1..k
RECURSIVE SchemaProperties(_, _, _)
SchemaProperties(properties, fileFields, k) ==
    IF k = 0 THEN properties
    ELSE [SchemaProperties(properties, fileFields, k - 1)
            EXCEPT ![FieldNameOf(fileFields[k])] =
                Some(IF fileFields[k].isArray
                     THEN ArrayProperty(fileFields[k].options)
                     ELSE BinaryProperty)]

\* the callback given to OpenAPI(...), files.ts:245-296: it throws when the
\* class has no schema (no decorated property), else it sets the properties
GenerateSchema ==
    /\ handler.registered
    /\ LET fileFields == FileFields
       IN  IF Len(fileFields) = 0
           THEN schema' = [schema EXCEPT !.threw = TRUE]
           ELSE schema' =
                  [generated |-> TRUE, threw |-> FALSE,
                   properties |->
                      SchemaProperties(ValidatorSchema(fileFields, Len(fileFields)),
                                       fileFields, Len(fileFields))]
    /\ UNCHANGED nonSchemaVars

\* the options of an array or scalar field whose counts are declared, as 0
\* too
ItemCounts == {Undef, Some(0), Some(MinFilesDeclared), Some(MaxFilesDeclared)}

SchemaOptions ==
    {[NoOptions EXCEPT !.minFiles = a, !.maxFiles = b, !.fieldName = n] :
        a \in ItemCounts, b \in ItemCounts, n \in {Undef, Some("docs")}}

SchemaPrograms ==
    {<<UseMulterStmt>>}
    \cup {<<Decorate(op, "UploadDto", "upload", o), UseMulterStmt>> :
            op \in FileDecorators, o \in SchemaOptions}
    \cup {<<Decorate(op1, "UploadDto", "avatar", o1),
            Decorate(op2, "UploadDto", "upload", o2), UseMulterStmt>> :
            op1 \in FileDecorators, op2 \in FileDecorators,
            o1 \in CountOptions, o2 \in NamedOptions}

InitOpenAPI ==
    /\ program \in SchemaPrograms
    /\ arrays = <<>>
    /\ ownMeta = [c \in Classes |-> 0]
    /\ handler = [registered |-> FALSE, fileFields |-> 0, multerFields |-> <<>>]
    /\ req = IdleReq
    /\ nextCalls = <<>>
    /\ thrown = FALSE
    /\ visited = {}
    /\ ResolverIdle
    /\ OpenAPIIdle
    /\ GuardIdle
    /\ BodyIdle
    /\ ParamIdle

NextOpenAPI ==
    \/ IsFile
    \/ IsFiles
    \/ UseMulter
    \/ GenerateSchema

SpecOpenAPI == InitOpenAPI /\ [][NextOpenAPI]_vars

(***************************************************************************)
(* RequestGuard, decorators.ts:145-164.  The validator resolves to true,   *)
(* to an object {message, status?}, to some other value, or it throws or   *)
(* rejects.                                                                *)
(***************************************************************************)
MkOutcome(kind, message, status) ==
    [kind |-> kind, message |-> message, status |-> status]

GuardMessages == {Undef, Some(""), Some("No token"), Some("Expired")}

GuardStatuses == {Undef, Some(0), Some(401), Some(404), Some(429)}

\* what await validator(req, res, next) ends with: "true"; an object; a
\* value without message and status (false, null, undefined, 1, "true"); an
\* exception (thrown, or the promise rejected)
ValidatorOutcomes ==
    {MkOutcome("true", Undef, Undef)}
    \cup {MkOutcome("object", m, st) : m \in GuardMessages, st \in GuardStatuses}
    \cup {MkOutcome(k, Undef, Undef) : k \in {"false", "null", "one", "string"}}
    \cup {MkOutcome(k, Undef, Undef) : k \in {"threw", "rejected"}}

DefaultGuardMessage == "Access denied: Invalid data"

ServerErrorMessage == "Server error during validation"

MkResponse(status, message) == [status |-> status, message |-> message]

\* isValid?.message || "Access denied: Invalid data", decorators.ts:153
GuardMessage(isValid) ==
    IF IsDef(isValid.message) /\ Val(isValid.message) # ""
    THEN Val(isValid.message) ELSE DefaultGuardMessage

\* the variant of GuardStatus that always answers 403
GuardStatusForbidden(isValid) == 403

\* isValid?.status || 403, decorators.ts:154
GuardStatus(isValid) ==
    IF IsDef(isValid.status) /\ Val(isValid.status) # 0
    THEN Val(isValid.status) ELSE 403

\* a request reaches the middleware: validator(req, res, next) is called,
\* decorators.ts:151
GuardReceive ==
    /\ guard.phase = "idle"
    /\ guard.served < MaxGuardRequests
    /\ guard' = [guard EXCEPT !.phase = "validating"]
    /\ UNCHANGED nonGuardVars

\* the validator's promise settles, or the validator throws
ValidatorSettles ==
    /\ guard.phase = "validating"
    /\ \E o \in ValidatorOutcomes :
          guard' = [guard EXCEPT !.phase = "settled", !.isValid = Some(o)]
    /\ UNCHANGED nonGuardVars

\* the rest of the middleware, decorators.ts:152-161
GuardReacts ==
    /\ guard.phase = "settled"
    /\ LET isValid == Val(guard.isValid)
       IN  IF isValid.kind \in {"threw", "rejected"}
           THEN \* catch (err): console.error(err); res.status(500).send(...)
                guard' = [guard EXCEPT
                    !.phase = "done", !.logged = TRUE,
                    !.responses = Append(@, MkResponse(500, ServerErrorMessage))]
           ELSE IF isValid.kind # "true"
           THEN \* if (isValid !== true) return res.status(status).send(...)
                guard' = [guard EXCEPT
                    !.phase = "done",
                    !.responses = Append(@, MkResponse(GuardStatus(isValid),
                                                       GuardMessage(isValid)))]
           ELSE \* next()
                guard' = [guard EXCEPT !.phase = "done", !.nexts = @ + 1]
    /\ UNCHANGED nonGuardVars

\* the request is over; the guard serves the next one
GuardNextRequest ==
    /\ guard.phase = "done"
    /\ guard' = IdleGuard(guard.served + 1)
    /\ UNCHANGED nonGuardVars

InitGuard ==
    UploadIdle /\ ResolverIdle /\ OpenAPIIdle /\ GuardIdle /\ BodyIdle /\ ParamIdle

NextGuard ==
    \/ GuardReceive
    \/ ValidatorSettles
    \/ GuardReacts
    \/ GuardNextRequest

SpecGuard == InitGuard /\ [][NextGuard]_vars

(***************************************************************************)
(* BodyMultipart, files.ts:107-121.  An object is a function from Keys to  *)
(* the value under the key, "absent" for a key it does not have.  req.body *)
(* holds text fields; req.files is undefined, an array of files (multer's  *)
(* array() / any()), or an object of fields as UseMulter leaves it: an     *)
(* array of files, one file, or undefined.                                 *)
(***************************************************************************)
BodyObjects == [Keys -> {"absent", "text"}]

FileObjects == [Keys -> {"absent", "undefined", "file", "file[]"}]

\* req.files when it is an array: Array.isArray(req.files)
FileArrays == {"files[0]", "files[1]"}

\* the values of req.files: an object of fields, or an array
FilesObject(fields) == [isArray |-> FALSE, fields |-> fields, array |-> ""]

FilesArray(array) == [isArray |-> TRUE, fields |-> EmptyObject, array |-> array]

FilesValues ==
    {FilesObject(f) : f \in FileObjects} \cup {FilesArray(a) : a \in FileArrays}

\* the properties the DTO class exposes (@Expose)
Exposed == {"title", "avatar"}

\* toDTO(type, data), utils.ts:6-10: plainToClass with
\* excludeExtraneousValues keeps the exposed properties only; an exposed
\* property the data lacks is set to undefined
toDTO(data) ==
    [k \in Keys |->
        IF k \notin Exposed THEN "absent"
        ELSE IF data[k] = "absent" THEN "undefined"
        ELSE data[k]]

\* the variant of Spread in which the first object's properties win
SpreadFirstWins(a, b) ==
    [k \in Keys |-> IF a[k] # "absent" THEN a[k] ELSE b[k]]

\* { ...a, ...b }: the own properties of b, set to undefined or not, replace
\* those of a
Spread(a, b) ==
    [k \in Keys |-> IF b[k] # "absent" THEN b[k] ELSE a[k]]

\* the value(action) of files.ts:110-119
BodyMultipartValue(type, body, files) ==
    LET bodyData == IF type
                    THEN toDTO(IF IsDef(body) THEN Val(body) ELSE EmptyObject)
                    ELSE (IF IsDef(body) THEN Val(body) ELSE EmptyObject)
    IN  IF IsDef(files) /\ Val(files).isArray
        THEN Spread(bodyData, [EmptyObject EXCEPT !["files"] = Val(files).array])
        ELSE Spread(bodyData,
                    IF IsDef(files) THEN Val(files).fields ELSE EmptyObject)

\* a request reaches a handler with a @BodyMultipart(type?) parameter
BodyReceive ==
    /\ bodyReq.phase = "idle"
    /\ \E type \in BOOLEAN,
          body \in {Undef} \cup {Some(b) : b \in BodyObjects},
          files \in {Undef} \cup {Some(f) : f \in FilesValues} :
          bodyReq' = [IdleBody EXCEPT !.phase = "request", !.type = type,
                                      !.body = body, !.files = files]
    /\ UNCHANGED nonBodyVars

\* the parameter is resolved: value(action) returns data
BodyMultipart ==
    /\ bodyReq.phase = "request"
    /\ bodyReq' = [bodyReq EXCEPT
          !.phase = "resolved",
          !.result = BodyMultipartValue(bodyReq.type, bodyReq.body, bodyReq.files)]
    /\ UNCHANGED nonBodyVars

\* the request is over
BodyNextRequest ==
    /\ bodyReq.phase = "resolved"
    /\ bodyReq' = IdleBody
    /\ UNCHANGED nonBodyVars

InitBody ==
    UploadIdle /\ ResolverIdle /\ OpenAPIIdle /\ GuardIdle /\ BodyIdle /\ ParamIdle

NextBody ==
    \/ BodyReceive
    \/ BodyMultipart
    \/ BodyNextRequest

SpecBody == InitBody /\ [][NextBody]_vars

(***************************************************************************)
(* RequestResolver, decorators.ts:166-190.  The extractor is a function    *)
(* the application supplies: called, it throws, or returns a promise that  *)
(* rejects or fulfils with a value (a returned value is awaited as one).   *)
(***************************************************************************)
\* the objects an extractor returns
RawObjects == [Keys -> {"absent", "text", "number"}]

\* the kinds of value for which !rawData holds
FalsyKinds == {"null", "undefined", "zero", "empty", "false", "NaN"}

\* the values an extractor's promise fulfils with
RawValues ==
    {MkValue(k, "", EmptyObject) : k \in FalsyKinds}
        \cup {MkValue("object", "Object", o) : o \in RawObjects}

\* how the call of the extractor ends
ExtractorOutcomes ==
    {[state |-> "rejected", value |-> Null]}
        \cup {[state |-> "fulfilled", value |-> v] : v \in RawValues}

ExtractorThrew == [state |-> "threw", value |-> Null]

\* toDTO(dtoClass, rawData) of an object: an instance of the class with
\* the exposed properties
Converted(rawData) == MkValue("object", "Dto", toDTO(rawData.fields))

\* the promise of value(action) fulfilled with v; the catch block logged
Returned(v, logged) == [state |-> "fulfilled", value |-> v, logged |-> logged]

\* the variant of RequestResolverValue without the try / catch of
\* decorators.ts:174-187: the extractor's failure is the function's
RequestResolverValueNoCatch(dtoClass, extractor) ==
    IF extractor.state \in {"threw", "rejected"}
    THEN [state |-> "rejected", value |-> Null, logged |-> FALSE]
    ELSE IF extractor.value.kind \in FalsyKinds
    THEN Returned(Null, FALSE)
    ELSE IF dtoClass
    THEN Returned(Converted(extractor.value), FALSE)
    ELSE Returned(extractor.value, FALSE)

\* value(action), decorators.ts:172-188, once the call of the extractor
\* has ended: the catch block for a throw or a rejection, else the three
\* returns of the try block
RequestResolverValue(dtoClass, extractor) ==
    IF extractor.state \in {"threw", "rejected"}
    THEN \* catch (error): console.error, return null
         Returned(Null, TRUE)
    ELSE IF extractor.value.kind \in FalsyKinds
    THEN \* if (!rawData) return null
         Returned(Null, FALSE)
    ELSE IF dtoClass
    THEN Returned(Converted(extractor.value), FALSE)
    ELSE Returned(extractor.value, FALSE)

\* value(action) is called for a request: it calls the extractor, which
\* throws (the catch block runs) or returns a promise the function awaits
ParamReceive ==
    /\ param.phase = "idle"
    /\ \E dtoClass \in BOOLEAN, throws \in BOOLEAN :
          param' = IF throws
                   THEN [IdleParam EXCEPT
                            !.phase = "resolved", !.dtoClass = dtoClass,
                            !.extractor = ExtractorThrew,
                            !.outcome = RequestResolverValue(dtoClass,
                                                             ExtractorThrew)]
                   ELSE [IdleParam EXCEPT
                            !.phase = "awaiting", !.dtoClass = dtoClass,
                            !.extractor = [state |-> "pending", value |-> Null]]
    /\ UNCHANGED nonParamVars

\* the promise the extractor returned settles
ExtractorSettles ==
    /\ param.phase = "awaiting"
    /\ \E e \in ExtractorOutcomes :
          param' = [param EXCEPT !.phase = "settled", !.extractor = e]
    /\ UNCHANGED nonParamVars

\* value(action) goes on after the await of decorators.ts:175 and settles
RequestResolver ==
    /\ param.phase = "settled"
    /\ param' = [param EXCEPT
          !.phase = "resolved",
          !.outcome = RequestResolverValue(param.dtoClass, param.extractor)]
    /\ UNCHANGED nonParamVars

\* the request is over
ParamNextRequest ==
    /\ param.phase = "resolved"
    /\ param' = IdleParam
    /\ UNCHANGED nonParamVars

InitRequestResolver ==
    UploadIdle /\ ResolverIdle /\ OpenAPIIdle /\ GuardIdle /\ BodyIdle /\ ParamIdle

NextRequestResolver ==
    \/ ParamReceive
    \/ ExtractorSettles
    \/ RequestResolver
    \/ ParamNextRequest

SpecRequestResolver == InitRequestResolver /\ [][NextRequestResolver]_vars

(***************************************************************************)
(* What the handler's declaration asks of a request, stated on the files   *)
(* the client sent (not on what the middleware did).                       *)
(***************************************************************************)
Done == req.phase = "done"

Accepted == nextCalls = <<NoArg>>

NameAt(k) == FieldNameOf(FileFields[k])

\* the files the client sent for the k-th declared field
SentAt(k) == req.sent[NameAt(k)]

\* the files of this request whose checks ran, for the k-th declared field
VisitedAt(k) == {j \in 1..Len(SentAt(k)) : <<k, j>> \in visited}

\* no field declared before the k-th can fail: each is optional and got no file
EarlierInert(k) ==
    \A i \in 1..(k - 1) :
        ~FileFields[i].options.required /\ SentAt(i) = <<>>

\* the client sent files under the name of the k-th field only
OnlyFieldSent(k) == \A n \in FieldNames \ {NameAt(k)} : req.sent[n] = <<>>

\* a size bound the declaration states in bytes: a number, or digits with a
\* unit of the bytes package
RecognizedSize(opt) ==
    IsDef(opt) /\ (Val(opt).type = "number"
                   \/ (Val(opt).digits >= 0 /\ IsDef(UnitMultiplier(Val(opt).unit))))

DeclaredBytes(opt) ==
    IF Val(opt).type = "number" THEN Val(opt).digits
    ELSE Val(opt).digits * Val(UnitMultiplier(Val(opt).unit))

\* a size bound written as a string whose unit the bytes package does not know
UnrecognizedUnit(opt) == IsDef(opt) /\ ~RecognizedSize(opt)

\* the pattern, as a regular expression, has a match in the MIME type
PatternMatches(item, mimetype) ==
    LET regex == IF item.kind = "RegExp" THEN item ELSE NewRegExp(item)
    IN  \E i \in 0..Len(mimetype) : MatchAt(regex, mimetype, i)

AllowlistOf(meta) ==
    IF IsDef(meta.options.mimeTypes) THEN Val(meta.options.mimeTypes) ELSE <<>>

AllowlistAdmits(meta, mimetype) ==
    \E p \in DOMAIN AllowlistOf(meta) : PatternMatches(AllowlistOf(meta)[p], mimetype)

\* the constraint a file violates first: too small, too large, invalid type
FileViolation(meta, file) ==
    IF RecognizedSize(meta.options.minSize)
       /\ file.size < DeclaredBytes(meta.options.minSize) THEN "TooSmall"
    ELSE IF RecognizedSize(meta.options.maxSize)
            /\ file.size > DeclaredBytes(meta.options.maxSize) THEN "TooLarge"
    ELSE IF AllowlistOf(meta) # <<>> /\ ~AllowlistAdmits(meta, file.mimetype)
    THEN "InvalidType"
    ELSE "ok"

SetMin(S) == CHOOSE x \in S : \A y \in S : x <= y

\* the first constraint the k-th field's files violate, in the order missing,
\* too few, too many, then per retained file; Undef when they violate none
FieldViolation(k) ==
    LET meta == FileFields[k]
        name == NameAt(k)
        files == SentAt(k)
        n == Len(files)
        retained == IF meta.isArray THEN files ELSE SubSeq(files, 1, 1)
        bad == {j \in 1..Len(retained) : FileViolation(meta, retained[j]) # "ok"}
    IN  IF n = 0
        THEN (IF meta.options.required THEN Some(NoFiles(name)) ELSE Undef)
        ELSE IF meta.isArray /\ IsDef(meta.options.minFiles)
                /\ n < Val(meta.options.minFiles)
        THEN Some(TooFew(name))
        ELSE IF meta.isArray /\ IsDef(meta.options.maxFiles)
                /\ n > Val(meta.options.maxFiles)
        THEN Some(TooMany(name))
        ELSE IF bad = {} THEN Undef
        ELSE Some(MkError(FileViolation(meta, retained[SetMin(bad)]), name,
                          SetMin(bad)))

ViolatingFields == {k \in DOMAIN FileFields : IsDef(FieldViolation(k))}

(***************************************************************************)
(* Claims.                                                                 *)
(***************************************************************************)

\* C1: a required field that received zero files always ends the request
\* with the error 'No files uploaded for field: <fieldName>', also when the
\* parser produced no file container.  Stated where nothing else can
\* preempt it: the parser reported no error and no earlier field can fail.
C1_RequiredMissingIsRejected ==
    Done =>
        \A k \in DOMAIN FileFields :
            (/\ FileFields[k].options.required
             /\ SentAt(k) = <<>>
             /\ EarlierInert(k)
             /\ ~IsDef(req.err))
            => nextCalls = <<NoFiles(NameAt(k))>>

\* C2: next() is called without an error only if every declared field
\* satisfies all of its declared constraints (presence, file count, size,
\* MIME allowlist).
C2_HandlerRunsOnlyIfValid ==
    (Done /\ Accepted) => ViolatingFields = {}

\* C3: when a request violates several constraints, the single error
\* reported is the first violation: fields in declaration order, within a
\* field missing, too few, too many, then per file too small, too large,
\* invalid type.  Stated for requests the parser let through.
C3_FirstViolationIsReported ==
    (Done /\ ~IsDef(req.err) /\ Cardinality(ViolatingFields) >= 2)
    => nextCalls = <<Val(FieldViolation(SetMin(ViolatingFields)))>>

\* C4: for an array field that declares minFiles and maxFiles and received
\* at least one file, the request is rejected with 'Too few files' exactly
\* when the count is below minFiles and with 'Too many files' exactly when
\* it is above maxFiles.  Stated where nothing else can preempt it: no
\* earlier field can fail, no file under another name, no parse failure.
C4_CardinalityErrors ==
    Done =>
        \A k \in DOMAIN FileFields :
            (/\ FileFields[k].isArray
             /\ IsDef(FileFields[k].options.minFiles)
             /\ IsDef(FileFields[k].options.maxFiles)
             /\ Len(SentAt(k)) >= 1
             /\ EarlierInert(k)
             /\ OnlyFieldSent(k)
             /\ req.err # Some(ParseFailure))
            => /\ (nextCalls = <<TooFew(NameAt(k))>>)
                    <=> (Len(SentAt(k)) < Val(FileFields[k].options.minFiles))
               /\ (nextCalls = <<TooMany(NameAt(k))>>)
                    <=> (Len(SentAt(k)) > Val(FileFields[k].options.maxFiles))

\* C5: for an array field that declares no maxFiles no number of received
\* files is rejected for being too many, neither by the parser as UseMulter
\* configures it nor by the validator; with no minFiles declared no
\* positive count is rejected for being too few.
C5_AbsentBoundIsNoConstraint ==
    Done =>
        \A k \in DOMAIN FileFields :
            (FileFields[k].isArray /\ Len(SentAt(k)) >= 1)
            => /\ ~IsDef(FileFields[k].options.maxFiles)
                    => /\ nextCalls # <<TooMany(NameAt(k))>>
                       /\ nextCalls # <<UnexpectedFile(NameAt(k))>>
               /\ ~IsDef(FileFields[k].options.minFiles)
                    => nextCalls # <<TooFew(NameAt(k))>>

\* the errors of the multipart parser, forwarded by if (err) return next(err)
ParserErrorKinds == {"LIMIT_UNEXPECTED_FILE", "PARSE_ERROR"}

RejectedByParser ==
    Len(nextCalls) = 1 /\ nextCalls[1].kind \in ParserErrorKinds

\* C5, as amended: an array field that declares no maxFiles is never
\* rejected by the validator for too many files, and not by the parser
\* either up to DefaultMaxCount files; above DefaultMaxCount files the parser
\* rejects the request; with no minFiles declared no positive count is
\* rejected for being too few.
C5_DefaultCapOnly ==
    Done =>
        \A k \in DOMAIN FileFields :
            (FileFields[k].isArray /\ Len(SentAt(k)) >= 1)
            => /\ ~IsDef(FileFields[k].options.maxFiles)
                    => /\ nextCalls # <<TooMany(NameAt(k))>>
                       /\ Len(SentAt(k)) <= DefaultMaxCount
                            => nextCalls # <<UnexpectedFile(NameAt(k))>>
                       /\ Len(SentAt(k)) > DefaultMaxCount => RejectedByParser
               /\ ~IsDef(FileFields[k].options.minFiles)
                    => nextCalls # <<TooFew(NameAt(k))>>

\* an array field without maxFiles received DefaultMaxCount files and the
\* request was accepted
C5_Witness ==
    /\ Done
    /\ Accepted
    /\ \E k \in DOMAIN FileFields :
          /\ FileFields[k].isArray
          /\ ~IsDef(FileFields[k].options.maxFiles)
          /\ Len(SentAt(k)) = DefaultMaxCount

\* C6: a scalar field that receives more than one file under its name is
\* not rejected because of the extra files, and after acceptance req.files
\* maps the field to exactly the first received file.
C6_ExtraFilesAreDropped ==
    Done =>
        \A k \in DOMAIN FileFields :
            (~FileFields[k].isArray /\ Len(SentAt(k)) >= 2)
            => /\ nextCalls # <<UnexpectedFile(NameAt(k))>>
               /\ Accepted => req.files[NameAt(k)] = FileEntry(SentAt(k)[1])

\* C6, as amended: a request with more than one file under the name of a
\* scalar field is rejected by the parser (maxCount 1) and never validated;
\* when a scalar field received exactly one file and the request is
\* accepted, req.files maps the field to that file, a single file and not a
\* sequence.
C6_ExtraFilesAreRejected ==
    Done =>
        \A k \in DOMAIN FileFields :
            ~FileFields[k].isArray
            => /\ Len(SentAt(k)) >= 2 => (RejectedByParser /\ visited = {})
               /\ (Len(SentAt(k)) = 1 /\ Accepted)
                    => req.files[NameAt(k)] = FileEntry(SentAt(k)[1])

\* a scalar field received two files and the request ended with the
\* parser's unexpected-file error for that field
C6_Witness ==
    /\ Done
    /\ \E k \in DOMAIN FileFields :
          /\ ~FileFields[k].isArray
          /\ Len(SentAt(k)) >= 2
          /\ nextCalls = <<UnexpectedFile(NameAt(k))>>

\* C7: for a scalar field that received several files, only the first file
\* is checked for size and type.  Stated where nothing else can preempt
\* the check: no earlier field can fail, no file under another name, no
\* parse failure.
C7_OnlyFirstFileChecked ==
    Done =>
        \A k \in DOMAIN FileFields :
            (/\ ~FileFields[k].isArray
             /\ Len(SentAt(k)) >= 2
             /\ EarlierInert(k)
             /\ OnlyFieldSent(k)
             /\ req.err # Some(ParseFailure))
            => VisitedAt(k) = {1}

SizeOrTypeKinds == {"TooSmall", "TooLarge", "InvalidType"}

\* C7, as amended: the size and type checks run over the files the validator
\* received for a field, in received order from the first one; a scalar
\* field reaches the validator with at most one file (a request with more is
\* rejected by the parser, no file checked), so the only file of a scalar
\* field that is ever checked, and the only one a size or type error can
\* name, is the first, which is the retained one.
C7_ChecksRunOverReceivedFiles ==
    Done =>
        \A k \in DOMAIN FileFields :
            /\ \E m \in 0..Len(SentAt(k)) : VisitedAt(k) = 1..m
            /\ ~FileFields[k].isArray
                 => /\ VisitedAt(k) \subseteq {1}
                    /\ Len(SentAt(k)) >= 2 => VisitedAt(k) = {}
                    /\ (Len(nextCalls) = 1
                        /\ nextCalls[1].kind \in SizeOrTypeKinds
                        /\ nextCalls[1].field = NameAt(k))
                         => /\ nextCalls[1].file = 1
                            /\ req.files[NameAt(k)] = FileEntry(SentAt(k)[1])

\* a scalar field with a 1KB minimum received a good file and then a file
\* that is too small: the parser rejected the request, no file was checked
C7_Witness ==
    /\ Done
    /\ \E k \in DOMAIN FileFields :
          /\ ~FileFields[k].isArray
          /\ FileFields[k].options.minSize = Some(StringSize(1, "KB"))
          /\ Len(SentAt(k)) = 2
          /\ SentAt(k)[1].size = KB
          /\ SentAt(k)[2].size = KB - 1
          /\ nextCalls = <<UnexpectedFile(NameAt(k))>>
          /\ VisitedAt(k) = {}

\* a bound of 1024 bytes: the string '1KB', or the number 1024
OneKB == {Some(StringSize(1, "KB")), Some(NumberSize(KB))}

\* C8: size bounds are inclusive and exact in bytes.  For every file whose
\* checks ran, under bounds declared as '1KB' (or as the number 1024): a
\* file of 1023 bytes is rejected as too small under minSize, a file of
\* 1025 bytes as too large under maxSize, and a file of exactly 1024 bytes
\* is rejected by neither check.
C8_SizeBoundsInclusive ==
    Done =>
        \A k \in DOMAIN FileFields :
            \A j \in VisitedAt(k) :
                LET opts == FileFields[k].options
                    size == SentAt(k)[j].size
                IN  /\ (opts.minSize \in OneKB /\ size = 1023)
                        => nextCalls = <<TooSmall(NameAt(k), j)>>
                    /\ (opts.maxSize \in OneKB /\ size = 1025
                        /\ opts.minSize \in OneKB \cup {Undef})
                        => nextCalls = <<TooLarge(NameAt(k), j)>>
                    /\ (size = 1024
                        /\ opts.minSize \in OneKB \cup {Undef}
                        /\ opts.maxSize \in OneKB \cup {Undef})
                        => /\ nextCalls # <<TooSmall(NameAt(k), j)>>
                           /\ nextCalls # <<TooLarge(NameAt(k), j)>>

\* a field with minSize '1KB' and maxSize '1KB' received a file of exactly
\* 1024 bytes, the file was checked and the request accepted
C8_Witness ==
    /\ Done
    /\ Accepted
    /\ \E k \in DOMAIN FileFields :
          /\ FileFields[k].options.minSize = Some(StringSize(1, "KB"))
          /\ FileFields[k].options.maxSize = Some(StringSize(1, "KB"))
          /\ \E j \in VisitedAt(k) : SentAt(k)[j].size = 1024

\* C9: a minSize or maxSize given as a string with an unrecognized unit is a
\* configuration error raised at declaration or registration: no handler
\* with such a bound ever serves a request.
C9_UnrecognizedUnitNeverServes ==
    req.phase # "idle" =>
        \A k \in DOMAIN FileFields :
            /\ ~UnrecognizedUnit(FileFields[k].options.minSize)
            /\ ~UnrecognizedUnit(FileFields[k].options.maxSize)

\* C10: for every checked file that passed the size checks, the request is
\* rejected with the 'invalid type' error for that file exactly when the
\* field's allowlist is non-empty and none of its patterns matches the
\* file's MIME type.
C10_TypeCheckIsAllowlistMatch ==
    Done =>
        \A k \in DOMAIN FileFields :
            \A j \in VisitedAt(k) :
                (/\ nextCalls # <<TooSmall(NameAt(k), j)>>
                 /\ nextCalls # <<TooLarge(NameAt(k), j)>>)
                => ((nextCalls = <<InvalidType(NameAt(k), j)>>)
                    <=> (/\ AllowlistOf(FileFields[k]) # <<>>
                         /\ ~AllowlistAdmits(FileFields[k], SentAt(k)[j].mimetype)))

\* C11: a MIME pattern given as a literal string P matches the literal value
\* only: with P the only allowed pattern, a checked file that passed the
\* size checks passes the type check exactly when its MIME type is P.
C11_StringPatternIsExact ==
    Done =>
        \A k \in DOMAIN FileFields :
            \A j \in VisitedAt(k) :
                LET allow == AllowlistOf(FileFields[k])
                IN  (/\ Len(allow) = 1
                     /\ allow[1].kind = "string"
                     /\ nextCalls # <<TooSmall(NameAt(k), j)>>
                     /\ nextCalls # <<TooLarge(NameAt(k), j)>>)
                    => ((nextCalls # <<InvalidType(NameAt(k), j)>>)
                        <=> (SentAt(k)[j].mimetype = allow[1].body))

\* C12: for an optional field that received zero files, validation never
\* rejects on that field and evaluates none of its constraints, and after
\* acceptance req.files holds an empty sequence for it when it is an array
\* field and an absent value when it is a scalar field.
C12_OptionalEmptyIsNormalized ==
    Done =>
        \A k \in DOMAIN FileFields :
            (~FileFields[k].options.required /\ SentAt(k) = <<>>)
            => /\ \A i \in DOMAIN nextCalls : nextCalls[i].field # NameAt(k)
               /\ VisitedAt(k) = {}
               /\ Accepted
                    => IF FileFields[k].isArray
                       THEN req.files[NameAt(k)] = ArrayEntry(<<>>)
                       ELSE req.files[NameAt(k)] \in {Missing, UndefinedEntry}

\* C13: the list of field specs a UseMulter handler validates against is
\* fixed when UseMulter(dtoClass) is applied: after IsFile / IsFiles
\* declarations that run later, on any class, the fields the handler checks
\* are still the fields it passed to the parser at registration.
C13_FieldsFixedAtRegistration ==
    handler.registered => MulterFields(FileFields) = handler.multerFields

\* the field specs as authored: every pattern object with lastIndex 0
AsDeclared(fileFields) ==
    [k \in DOMAIN fileFields |->
        IF IsDef(fileFields[k].options.mimeTypes)
        THEN [fileFields[k] EXCEPT !.options.mimeTypes =
                Some([p \in DOMAIN Val(@) |-> [Val(@)[p] EXCEPT !.lastIndex = 0]])]
        ELSE fileFields[k]]

\* req.files as the parser handed it to the callback for this request
ParsedContainer ==
    [n \in FieldNames |->
        IF Len(req.sent[n]) > 0 THEN ArrayEntry(req.sent[n]) ELSE Missing]

\* C14: validation carries no state from one request to the next: the
\* outcome of validating the received files is the one the handler gives
\* on its first request, whatever requests it validated before.
C14_OutcomeIndependentOfHistory ==
    (Done /\ ~IsDef(req.err) /\ req.hasFiles)
    => nextCalls =
         <<ValidateFields(AsDeclared(FileFields), 1, ParsedContainer, {}).arg>>

\* the tasks a call of resolveAll() found in AsyncResolver.tasks
AddedBefore(c) == 1..calls[c].upto

C16_RejectedTypeIsLoggedNotRaised ==
    /\ \A c \in DOMAIN calls :
          /\ calls[c].state # "rejected"
          /\ calls[c].state = "completed"
                => \A i \in AddedBefore(c) : tasks[i].state = "fulfilled"
    /\ \A i \in DOMAIN tasks :
          LET e == entities[tasks[i].prop]
          IN  e.typePromise = "rejected"
              => /\ ~e.typeApplied
                 /\ e.schemaRef = "none"
                 /\ tasks[i].state # "rejected"
                 /\ tasks[i].state = "fulfilled" <=> e.logged

\* a call of resolveAll() completed over two tasks, one of a type promise
\* that rejected (logged) and one of a type promise that fulfilled
C16_Witness ==
    \E c \in DOMAIN calls :
        /\ calls[c].state = "completed"
        /\ \E i, j \in AddedBefore(c) :
              /\ entities[tasks[i].prop].typePromise = "rejected"
              /\ entities[tasks[i].prop].logged
              /\ entities[tasks[j].prop].typePromise = "fulfilled"

\* C17: for each declared field the OpenAPI step sets the schema property
\* named by the field to {type: string, format: binary} for a scalar field
\* and to an array of binary strings for an array field, with minItems
\* present and equal to minFiles exactly when minFiles is declared, and
\* maxItems likewise; a scalar field never gets minItems / maxItems.
C17_SchemaItemsWhenDeclared ==
    schema.generated =>
        \A k \in DOMAIN FileFields :
            LET meta == FileFields[k]
                property == schema.properties[NameAt(k)]
            IN  /\ IsDef(property)
                /\ IF meta.isArray
                   THEN Val(property) =
                          MkProperty("array", "none", "binary",
                                     meta.options.minFiles, meta.options.maxFiles)
                   ELSE Val(property) = BinaryProperty

\* what if (meta.options.minFiles) lets through: a declared, non-zero count
NonZero(opt) == IF IsDef(opt) /\ Val(opt) # 0 THEN opt ELSE Undef

\* C17, as amended: minItems is present and equal to minFiles exactly when
\* minFiles is declared and not 0, and maxItems likewise; the rest as in
\* the claim.
C17_SchemaItemsWhenNonZero ==
    schema.generated =>
        \A k \in DOMAIN FileFields :
            LET meta == FileFields[k]
                property == schema.properties[NameAt(k)]
            IN  /\ IsDef(property)
                /\ IF meta.isArray
                   THEN Val(property) =
                          MkProperty("array", "none", "binary",
                                     NonZero(meta.options.minFiles),
                                     NonZero(meta.options.maxFiles))
                   ELSE /\ Val(property) = BinaryProperty
                        /\ Val(property).minItems = Undef
                        /\ Val(property).maxItems = Undef

\* the schema was generated for an array field named by fieldName that
\* declares minFiles 0 and a non-zero maxFiles
C17_Witness ==
    /\ schema.generated
    /\ \E k \in DOMAIN FileFields :
          /\ FileFields[k].isArray
          /\ FileFields[k].options.fieldName = Some("docs")
          /\ FileFields[k].options.minFiles = Some(0)
          /\ FileFields[k].options.maxFiles = Some(MaxFilesDeclared)
          /\ Val(schema.properties["docs"]).maxItems = Some(MaxFilesDeclared)
          /\ Val(schema.properties["docs"]).minItems = Undef

\* the validator's outcome for the request in the guard, once it reacted
GuardOutcome == Val(guard.isValid)

\* next() called once and no response sent by the guard
GuardPassed == guard.nexts = 1 /\ guard.responses = <<>>

\* one response sent, with this status and message, and next() not called
GuardAnswered(status, message) ==
    guard.nexts = 0 /\ guard.responses = <<MkResponse(status, message)>>

\* C18: for every request through a RequestGuard exactly one of these
\* happens: the validator resolved to true and next() is called with no
\* response sent; it resolved to another value and one response is sent
\* with that value's status (403 when none given) and message (the default
\* when none given); it threw or rejected and a 500 response is sent.
C18_GuardOutcomes ==
    /\ guard.nexts + Len(guard.responses) <= 1
    /\ guard.phase = "done" =>
          CASE GuardOutcome.kind = "true" -> GuardPassed
            [] GuardOutcome.kind \in {"threw", "rejected"} ->
                  GuardAnswered(500, ServerErrorMessage)
            [] OTHER ->
                  GuardAnswered(
                      IF IsDef(GuardOutcome.status)
                      THEN Val(GuardOutcome.status) ELSE 403,
                      IF IsDef(GuardOutcome.message)
                      THEN Val(GuardOutcome.message) ELSE DefaultGuardMessage)

\* a given status or message that is falsy (0, the empty string) counts as
\* not given
GivenOr(opt, falsy, default) ==
    IF IsDef(opt) /\ Val(opt) # falsy THEN Val(opt) ELSE default

\* C18, as amended: as the claim, the status being that value's status
\* when it is given and not 0 (else 403) and the message that value's
\* message when it is given and not empty (else the default); next() is
\* called only when the validator resolved to exactly true, and a response
\* is sent at most once.
C18_GuardOutcomesFalsyDefaults ==
    /\ guard.nexts + Len(guard.responses) <= 1
    /\ guard.nexts >= 1 => GuardOutcome.kind = "true"
    /\ guard.phase = "done" =>
          CASE GuardOutcome.kind = "true" -> GuardPassed
            [] GuardOutcome.kind \in {"threw", "rejected"} ->
                  GuardAnswered(500, ServerErrorMessage)
            [] OTHER ->
                  GuardAnswered(GivenOr(GuardOutcome.status, 0, 403),
                                GivenOr(GuardOutcome.message, "",
                                        DefaultGuardMessage))

\* the validator resolved to {message: "No token", status: 401} and the
\* guard answered 401 "No token" without calling next()
C18_Witness ==
    /\ guard.phase = "done"
    /\ GuardOutcome = MkOutcome("object", Some("No token"), Some(401))
    /\ GuardAnswered(401, "No token")

\* req.body of the request being resolved, empty when missing, converted
\* with toDTO when a type is given
ConvertedBody ==
    LET body == IF IsDef(bodyReq.body) THEN Val(bodyReq.body) ELSE EmptyObject
    IN  IF bodyReq.type THEN toDTO(body) ELSE body

\* C19: BodyMultipart returns one object that holds every key of req.body
\* (converted with toDTO when a type is given) and every field of
\* req.files, the value from req.files under a key of both; an array
\* req.files is returned whole under the key 'files'; a missing req.body
\* or req.files is treated as empty.
C19_BodyMultipartMerges ==
    bodyReq.phase = "resolved" =>
        \A k \in Keys :
            LET fromFiles ==
                    IF ~IsDef(bodyReq.files) THEN "absent"
                    ELSE IF Val(bodyReq.files).isArray
                    THEN (IF k = "files" THEN Val(bodyReq.files).array
                          ELSE "absent")
                    ELSE Val(bodyReq.files).fields[k]
            IN  /\ fromFiles # "absent" => bodyReq.result[k] = fromFiles
                /\ fromFiles = "absent" => bodyReq.result[k] = ConvertedBody[k]

\* req.body and req.files both have the key 'avatar' and the value returned
\* under it is the file
C19_Witness ==
    /\ bodyReq.phase = "resolved"
    /\ IsDef(bodyReq.body)
    /\ Val(bodyReq.body)["avatar"] = "text"
    /\ IsDef(bodyReq.files)
    /\ ~Val(bodyReq.files).isArray
    /\ Val(bodyReq.files).fields["avatar"] = "file"
    /\ bodyReq.result["avatar"] = "file"
    /\ bodyReq.result["title"] = "text"

\* C20: for every request the middleware calls next exactly once, with the
\* parser's error forwarded unchanged and nothing validated, or with the
\* first validation error, or with no argument; nothing is thrown out of
\* the middleware.
C20_NextCalledExactlyOnce ==
    /\ Len(nextCalls) <= 1
    /\ Done =>
          /\ Len(nextCalls) = 1
          /\ ~thrown
          /\ IsDef(req.err) => (nextCalls = <<Val(req.err)>> /\ visited = {})

\* the errors of the validation callback itself
ValidationKinds ==
    {"NoFiles", "TooFew", "TooMany", "TooSmall", "TooLarge", "InvalidType"}

RejectedByValidator ==
    Len(nextCalls) = 1 /\ nextCalls[1].kind \in ValidationKinds

\* C21: when the validator rejects a request, req.files is exactly as the
\* multipart parser produced it: no field validated before the failing one
\* has been replaced by its normalized value.
C21_RejectionLeavesContainer ==
    (Done /\ RejectedByValidator) => req.files = ParsedContainer

\* class c is class d or inherits from it
RECURSIVE Inherits(_, _)
Inherits(c, d) ==
    IF c \notin Classes THEN FALSE
    ELSE c = d \/ Inherits(Parent[c], d)

\* the file-field metadata read for class c: getFileFieldsMetadata(c)
MetadataOf(own, heap, c) ==
    IF GetMetadata(own, c) = 0 THEN <<>> ELSE heap[GetMetadata(own, c)]

\* an IsFile / IsFiles declaration runs in this step
Declares ==
    /\ program # <<>>
    /\ Head(program).op \in FileDecorators
    /\ program' = Tail(program)

\* C22: a declaration of a file field on a class appends one entry to the
\* metadata of that class and of the classes that inherit from it, and
\* leaves the metadata of every other class (its parent, a sibling, an
\* unrelated class) as it was; so the metadata of a class lists exactly the
\* fields declared on it and on its ancestors, in declaration order.
C22_DeclarationStaysInItsClass ==
    [][Declares =>
         \A c \in Classes :
             LET before == MetadataOf(ownMeta, arrays, c)
                 after == MetadataOf(ownMeta', arrays', c)
                 stmt == Head(program)
             IN  IF Inherits(c, stmt.cls)
                 THEN after = Append(before,
                                     MkMeta(stmt.key, stmt.op = "IsFiles",
                                            stmt.options))
                 ELSE after = before]_vars

\* the promise of call c of resolveAll() fulfils in this step
Fulfils(c) ==
    /\ c \in DOMAIN calls
    /\ calls[c].state = "awaiting"
    /\ calls'[c].state = "completed"

\* C23: at the moment the promise returned by resolveAll() fulfils, every
\* task added to AsyncResolver by that moment has settled, the tasks that
\* IsEntity decorators added while resolveAll() was awaiting included.
C23_FulfilsAfterEveryTaskAdded ==
    [][\A c \in DOMAIN calls' :
          Fulfils(c) => \A i \in DOMAIN tasks' : tasks'[i].state # "pending"]_vars

\* the call of the extractor failed: it threw, or its promise rejected
ExtractorFailed == param.extractor.state \in {"threw", "rejected"}

\* the data the extractor's promise fulfilled with
RawData == param.extractor.value

\* C24: the value function of RequestResolver never throws or rejects: it
\* yields null when the extractor throws, rejects or returns a falsy value,
\* and otherwise the extractor's data converted with toDTO when a dtoClass
\* is given, and the extractor's data unchanged when none is given.
C24_ValueNeverRejects ==
    /\ param.outcome.state # "rejected"
    /\ param.phase = "resolved" =>
          /\ param.outcome.state = "fulfilled"
          /\ (ExtractorFailed \/ RawData.kind \in FalsyKinds)
                => param.outcome.value = Null
          /\ (~ExtractorFailed /\ RawData.kind \notin FalsyKinds)
                => IF param.dtoClass
                   THEN /\ param.outcome.value.cls = "Dto"
                        /\ \A k \in Keys :
                              param.outcome.value.fields[k] =
                                  IF k \notin Exposed THEN "absent"
                                  ELSE IF RawData.fields[k] = "absent"
                                  THEN "undefined"
                                  ELSE RawData.fields[k]
                   ELSE param.outcome.value = RawData

\* the promise of the extractor rejected, and value(action) fulfilled with
\* null after logging the error
C24_Witness ==
    /\ param.phase = "resolved"
    /\ param.extractor.state = "rejected"
    /\ param.outcome = Returned(Null, TRUE)

====
